---- MODULE Spec2Model ----
(***************************************************************************)
(* A model of jetstream-turbo: the LRU cache and the hydration coordinator *)
(* (hydration.py), the chunked remote calls (bluesky_api.py), the          *)
(* batcher / admission controller / driver (turbocharger.py) and the sink  *)
(* (egress.py).                                                            *)
(***************************************************************************)
EXTENDS Bags, FiniteSets, Integers, Sequences, TLC

(***************************************************************************)
(* Bounds of the model.                                                    *)
(***************************************************************************)
\* largest max_size an LRUCache is created with in the LRU harness
MaxCap == 2

(***************************************************************************)
(* Values.  Python's None is a value distinct from every cached value.     *)
(***************************************************************************)
None == [none |-> TRUE]

\* the last element of a non-empty sequence
Last(s) == s[Len(s)]

(***************************************************************************)
(* LRUCache (hydration.py:11-42).  The OrderedDict is a sequence of        *)
(* entries [k, v]; index 1 is the front (least recently used), the last    *)
(* index is the end (most recently used).                                  *)
(***************************************************************************)
LRUCache(max_size) == [max_size |-> max_size, cache |-> <<>>]

\* key in self.cache
Has(cache, key) == \E i \in 1..Len(cache) : cache[i].k = key

\* self.cache[key]
Lookup(cache, key) == cache[CHOOSE i \in 1..Len(cache) : cache[i].k = key].v

\* self.cache.pop(key): the entries without key, order kept
Pop(cache, key) == SelectSeq(cache, LAMBDA e : e.k # key)

\* the keys of an OrderedDict, as a set
KeysOf(cache) == {cache[i].k : i \in 1..Len(cache)}

\* a get that leaves the recency order alone
LRUCache_get_NoPromote(lru, key) ==
    IF ~Has(lru.cache, key)
    THEN [lru |-> lru, value |-> None]
    ELSE [lru |-> lru, value |-> Lookup(lru.cache, key)]

\* LRUCache.get: [lru |-> the cache afterwards, value |-> what is returned]
LRUCache_get(lru, key) ==
    IF ~Has(lru.cache, key)
    THEN [lru |-> lru, value |-> None]
    ELSE LET value == Lookup(lru.cache, key)
         IN  [lru   |-> [lru EXCEPT !.cache =
                            Append(Pop(lru.cache, key), [k |-> key, v |-> value])],
              value |-> value]

\* a set that evicts the most recently used entry
LRUCache_set_EvictNewest(lru, key, value) ==
    IF Has(lru.cache, key)
    THEN [lru    |-> [lru EXCEPT !.cache =
                         Append(Pop(lru.cache, key), [k |-> key, v |-> value])],
          raised |-> FALSE]
    ELSE IF Len(lru.cache) >= lru.max_size
    THEN IF Len(lru.cache) = 0
         THEN [lru |-> lru, raised |-> TRUE]
         ELSE [lru    |-> [lru EXCEPT !.cache =
                              Append(SubSeq(lru.cache, 1, Len(lru.cache) - 1),
                                     [k |-> key, v |-> value])],
               raised |-> FALSE]
    ELSE [lru    |-> [lru EXCEPT !.cache = Append(lru.cache, [k |-> key, v |-> value])],
          raised |-> FALSE]

\* LRUCache.set: [lru |-> the cache afterwards, raised |-> whether it raised].
\* popitem(last=False) on an empty OrderedDict raises KeyError before
\* anything is stored.
LRUCache_set(lru, key, value) ==
    IF Has(lru.cache, key)
    THEN [lru    |-> [lru EXCEPT !.cache =
                         Append(Pop(lru.cache, key), [k |-> key, v |-> value])],
          raised |-> FALSE]
    ELSE IF Len(lru.cache) >= lru.max_size
    THEN IF Len(lru.cache) = 0
         THEN [lru |-> lru, raised |-> TRUE]
         ELSE [lru    |-> [lru EXCEPT !.cache =
                              Append(Tail(lru.cache), [k |-> key, v |-> value])],
               raised |-> FALSE]
    ELSE [lru    |-> [lru EXCEPT !.cache = Append(lru.cache, [k |-> key, v |-> value])],
          raised |-> FALSE]

(***************************************************************************)
(* Raw events (hydration.py:98-135, 205-236).  A RawEvent is a nested map; *)
(* the model keeps, for every node the code reads, its kind:               *)
(*   "dict" / "list"  a node of the expected type                          *)
(*   "missing"        the key is not in its parent                         *)
(*   "null"           the key is there and holds None                      *)
(*   "wrong"          the key is there and holds a number                  *)
(* and for the one element of the facets and features lists "absent" when  *)
(* the list is empty.  A leaf (did, uri, collection, rkey, time_us) is a   *)
(* positive number, or 0 when it is missing, None or "" (the code tests    *)
(* leaves for truth only).                                                 *)
(***************************************************************************)
NoKey == 0

RawEvent(did, mention_did, parent_uri, root_uri, quote_uri) ==
    [did |-> did, time_us |-> 1,
     commit |-> "dict", collection |-> 1, rkey |-> 1,
     record |-> "dict", rec_time_us |-> NoKey,
     embed |-> IF quote_uri = NoKey THEN "missing" ELSE "dict",
     embed_type |-> IF quote_uri = NoKey THEN "none" ELSE "app.bsky.embed.record",
     embed_record |-> IF quote_uri = NoKey THEN "missing" ELSE "dict",
     quote_uri |-> quote_uri,
     facets |-> IF mention_did = NoKey THEN "missing" ELSE "list",
     facet |-> IF mention_did = NoKey THEN "absent" ELSE "dict",
     features |-> IF mention_did = NoKey THEN "missing" ELSE "list",
     feature |-> IF mention_did = NoKey THEN "absent" ELSE "dict",
     feature_type |-> IF mention_did = NoKey THEN "none"
                      ELSE "app.bsky.richtext.facet#mention",
     mention_did |-> mention_did,
     reply |-> IF parent_uri = NoKey /\ root_uri = NoKey THEN "missing" ELSE "dict",
     parent |-> IF parent_uri = NoKey THEN "missing" ELSE "dict",
     parent_uri |-> parent_uri,
     root |-> IF root_uri = NoKey THEN "missing" ELSE "dict",
     root_uri |-> root_uri]

\* x.get(...) or iteration on a node raises (AttributeError, TypeError)
\* when the node is None or a number
Bad(kind) == kind \in {"null", "wrong"}

\* rec.get("commit", {}).get("record", {}): whether the two lookups raise
RecordRaises(rec) == Bad(rec.commit) \/ Bad(rec.record)

\* hydration.py:109-114: the quote URI of rec, NoKey when there is none
QuoteUri(rec) ==
    IF rec.embed = "dict" /\ rec.embed_type = "app.bsky.embed.record"
       /\ rec.embed_record = "dict"
    THEN rec.quote_uri ELSE NoKey

\* hydration.py:109-111: embed.get("$type"), embed.get("record", {}).get("uri")
EmbedRaises(rec) ==
    \/ Bad(rec.embed)
    \/ /\ rec.embed = "dict"
       /\ rec.embed_type = "app.bsky.embed.record"
       /\ Bad(rec.embed_record)

\* hydration.py:117-125: the mention DIDs of rec
MentionDids(rec) ==
    IF /\ rec.facets = "list" /\ rec.facet = "dict"
       /\ rec.features = "list" /\ rec.feature = "dict"
       /\ rec.feature_type = "app.bsky.richtext.facet#mention"
       /\ rec.mention_did # NoKey
    THEN {rec.mention_did} ELSE {}

\* hydration.py:117-121: iterating facets and features, facet.get, feature.get
FacetsRaise(rec) ==
    \/ Bad(rec.facets)
    \/ rec.facets = "list" /\ Bad(rec.facet)
    \/ rec.facets = "list" /\ rec.facet = "dict" /\ Bad(rec.features)
    \/ /\ rec.facets = "list" /\ rec.facet = "dict"
       /\ rec.features = "list" /\ Bad(rec.feature)

\* hydration.py:127-133: reply.get("parent", {}).get("uri") and the root's
ParentUri(rec) ==
    IF rec.reply = "dict" /\ rec.parent = "dict" THEN rec.parent_uri ELSE NoKey

RootUri(rec) ==
    IF rec.reply = "dict" /\ rec.root = "dict" THEN rec.root_uri ELSE NoKey

ReplyRaises(rec) ==
    \/ Bad(rec.reply)
    \/ rec.reply = "dict" /\ (Bad(rec.parent) \/ Bad(rec.root))

\* phase 1 (hydration.py:98-135) raises on rec
ExtractRaises(rec) ==
    RecordRaises(rec) \/ EmbedRaises(rec) \/ FacetsRaise(rec) \/ ReplyRaises(rec)

\* phase 1 raises on some record of the batch
CollectRaises(records) ==
    \E i \in 1..Len(records) : ExtractRaises(records[i])

\* all_dids after phase 1 (hydration.py:101-103, 122-125, 138), as a set
AllDids(records) ==
    UNION {({records[i].did} \ {NoKey}) \cup MentionDids(records[i]) :
             i \in 1..Len(records)}

\* all_uris after phase 1 (hydration.py:112-113, 128-133), as a set
AllUris(records) ==
    UNION {{QuoteUri(records[i]), ParentUri(records[i]), RootUri(records[i])} \ {NoKey} :
             i \in 1..Len(records)}

(***************************************************************************)
(* The remote social API (bluesky_api.py:58-96).  The remote resolves      *)
(* every key but the unresolvable ones, which it leaves out of its         *)
(* response.                                                               *)
(***************************************************************************)
\* the DIDs and URIs the remote does not resolve
UnresolvableDids == {3}
UnresolvableUris == {3}

\* what the remote library returns for a DID and for a URI
ProfileViewDetailed(did) == [obj |-> "ProfileViewDetailed", key |-> did]
PostView(uri) == [obj |-> "PostView", key |-> uri]

\* model_dump(): the object as a plain dictionary
model_dump(object) == [object EXCEPT !.obj = "dict"]

\* the pages of 25 keys of the two bulk calls (bluesky_api.py:85, 96)
PAGE_SIZE == 25

Min(a, b) == IF a <= b THEN a ELSE b

\* a _chunked_map that sends all items in one call
Chunks_OneCall(items, chunk_size) ==
    IF Len(items) = 0 THEN <<>> ELSE <<items>>

\* BlueskyAPI._chunked_map, the calls: items[i : i + chunk_size] for
\* i in range(0, len(items), chunk_size); no call for no items
Chunks(items, chunk_size) ==
    [j \in 1..((Len(items) + chunk_size - 1) \div chunk_size) |->
        SubSeq(items, (j - 1) * chunk_size + 1, Min(j * chunk_size, Len(items)))]

\* fetch_profiles on one page: {p.did: p for p in resp.profiles}
fetch_profiles(sub) ==
    LET resolved == SelectSeq(sub, LAMBDA d : d \notin UnresolvableDids)
    IN  [i \in 1..Len(resolved) |->
            [k |-> resolved[i], v |-> ProfileViewDetailed(resolved[i])]]

\* fetch_posts on one page: {p.uri: p for p in resp.posts}
fetch_posts(sub) ==
    LET resolved == SelectSeq(sub, LAMBDA u : u \notin UnresolvableUris)
    IN  [i \in 1..Len(resolved) |->
            [k |-> resolved[i], v |-> PostView(resolved[i])]]

\* BlueskyAPI._chunked_map, the result: the pages' dicts merged in order
RECURSIVE MergeProfiles(_)
MergeProfiles(pages) ==
    IF pages = <<>> THEN <<>>
    ELSE fetch_profiles(Head(pages)) \o MergeProfiles(Tail(pages))

RECURSIVE MergePosts(_)
MergePosts(pages) ==
    IF pages = <<>> THEN <<>>
    ELSE fetch_posts(Head(pages)) \o MergePosts(Tail(pages))

\* BlueskyAPI.get_user_data_for_dids and hydrate_records_for_uris
get_user_data_for_dids(dids) == MergeProfiles(Chunks(dids, PAGE_SIZE))

hydrate_records_for_uris(uris) == MergePosts(Chunks(uris, PAGE_SIZE))

\* the remote calls one hydration issues (hydration.py:152-168)
RemoteCalls(missing_dids, missing_uris) ==
    [j \in 1..Len(Chunks(missing_dids, PAGE_SIZE)) |->
        [api |-> "get_profiles", keys |-> Chunks(missing_dids, PAGE_SIZE)[j]]]
    \o
    [j \in 1..Len(Chunks(missing_uris, PAGE_SIZE)) |->
        [api |-> "get_posts", keys |-> Chunks(missing_uris, PAGE_SIZE)[j]]]

(***************************************************************************)
(* Hydration.hydrate_bulk, phases 2, 4 and 5 (hydration.py:143-254).       *)
(***************************************************************************)
\* a probe that finds nothing cached
ProbeCache_AllMissing(lru, keys) == [lru |-> lru, missing |-> keys]

\* [d for d in keys if cache.get(d) is None] (hydration.py:144-145):
\* [lru |-> the cache after the gets, missing |-> the list]
RECURSIVE ProbeCache(_, _)
ProbeCache(lru, keys) ==
    IF keys = <<>> THEN [lru |-> lru, missing |-> <<>>]
    ELSE LET r == LRUCache_get(lru, Head(keys))
         IN  IF r.value = None
             THEN LET rest == ProbeCache(r.lru, Tail(keys))
                  IN  [lru |-> rest.lru, missing |-> <<Head(keys)>> \o rest.missing]
             ELSE ProbeCache(r.lru, Tail(keys))

\* a publication that sets nothing
StoreFetched_Nothing(lru, fetched) == [lru |-> lru, raised |-> FALSE]

\* hydration.py:173-184: the fetched entries set into the cache
RECURSIVE StoreFetched(_, _)
StoreFetched(lru, fetched) ==
    IF fetched = <<>> THEN [lru |-> lru, raised |-> FALSE]
    ELSE LET r == LRUCache_set(lru, Head(fetched).v.key, model_dump(Head(fetched).v))
         IN  IF r.raised THEN r ELSE StoreFetched(r.lru, Tail(fetched))

\* a read-back that leaves the recency order alone
RECURSIVE ReadBack_NoPromote(_, _)
ReadBack_NoPromote(lru, keys) ==
    IF keys = <<>> THEN [lru |-> lru, map |-> <<>>]
    ELSE LET val  == IF Has(lru.cache, Head(keys))
                     THEN Lookup(lru.cache, Head(keys)) ELSE None
             rest == ReadBack_NoPromote(lru, Tail(keys))
         IN  [lru |-> lru,
              map |-> <<[k |-> Head(keys), v |-> val]>> \o rest.map]

\* a read-back that sets the keys it misses as well, with None
RECURSIVE ReadBack_CacheNone(_, _)
ReadBack_CacheNone(lru, keys) ==
    IF keys = <<>> THEN [lru |-> lru, map |-> <<>>]
    ELSE LET r == LRUCache_get(lru, Head(keys))
             again == LRUCache_set(r.lru, Head(keys), r.value)
         IN  IF again.raised THEN [lru |-> again.lru, map |-> <<>>]
             ELSE LET rest == ReadBack_CacheNone(again.lru, Tail(keys))
                  IN  [lru |-> rest.lru,
                       map |-> <<[k |-> Head(keys), v |-> r.value]>> \o rest.map]

\* hydration.py:187-200: every key of the batch read back with get and,
\* when present, set again: [lru, map |-> the key -> value entries]
RECURSIVE ReadBack(_, _)
ReadBack(lru, keys) ==
    IF keys = <<>> THEN [lru |-> lru, map |-> <<>>]
    ELSE LET r == LRUCache_get(lru, Head(keys))
         IN  IF r.value = None
             THEN LET rest == ReadBack(r.lru, Tail(keys))
                  IN  [lru |-> rest.lru,
                       map |-> <<[k |-> Head(keys), v |-> None]>> \o rest.map]
             ELSE LET again == LRUCache_set(r.lru, Head(keys), r.value)
                      rest  == IF again.raised THEN [lru |-> again.lru, map |-> <<>>]
                               ELSE ReadBack(again.lru, Tail(keys))
                  IN  [lru |-> rest.lru,
                       map |-> <<[k |-> Head(keys), v |-> r.value]>> \o rest.map]

\* dict.get(key): the value of key in a list of entries, None without one
DictGet(map, key) ==
    IF \E i \in 1..Len(map) : map[i].k = key
    THEN map[CHOOSE i \in 1..Len(map) : map[i].k = key].v
    ELSE None

\* a set as a list in ascending order
RECURSIVE Ascending(_)
Ascending(S) ==
    IF S = {} THEN <<>>
    ELSE LET m == CHOOSE x \in S : \A y \in S : x <= y
         IN  <<m>> \o Ascending(S \ {m})

\* hydration.py:205-253: the enriched record of one raw record
Enrich(rec, did_to_profile, uri_to_post) ==
    [at_uri  |-> IF rec.did # NoKey /\ rec.commit = "dict"
                    /\ rec.collection # NoKey /\ rec.rkey # NoKey
                 THEN <<rec.did, rec.collection, rec.rkey>> ELSE <<>>,
     did     |-> rec.did,
     time_us |-> IF rec.commit = "dict" /\ rec.record = "dict"
                 THEN rec.rec_time_us ELSE NoKey,
     message |-> rec,
     hydrated_metadata |->
        [user        |-> DictGet(did_to_profile, rec.did),
         mentions    |-> [i \in 1..Cardinality(MentionDids(rec)) |->
                            [k |-> Ascending(MentionDids(rec))[i],
                             v |-> DictGet(did_to_profile,
                                           Ascending(MentionDids(rec))[i])]],
         parent_post |-> IF ParentUri(rec) # NoKey
                         THEN DictGet(uri_to_post, ParentUri(rec)) ELSE None,
         reply_post  |-> IF RootUri(rec) # NoKey
                         THEN DictGet(uri_to_post, RootUri(rec)) ELSE None,
         quote_post  |-> IF QuoteUri(rec) # NoKey
                         THEN DictGet(uri_to_post, QuoteUri(rec)) ELSE None]]

\* an assembly that leaves out the records of unresolved authors
Assemble_SkipUnresolved(records, did_to_profile, uri_to_post) ==
    LET all == [i \in 1..Len(records) |->
                  Enrich(records[i], did_to_profile, uri_to_post)]
    IN  SelectSeq(all, LAMBDA e : e.hydrated_metadata.user # None)

\* hydration.py:203-254: the enriched list
Assemble(records, did_to_profile, uri_to_post) ==
    [i \in 1..Len(records) |-> Enrich(records[i], did_to_profile, uri_to_post)]

(***************************************************************************)
(* The LRU harness: one LRUCache driven by arbitrary get and set calls.    *)
(*   lru       the cache under test                                        *)
(*   last      the last call: its name, arguments, result                  *)
(*   accessed  the keys in the order of their last get-hit or set,         *)
(*             oldest first (kept by the harness, not by the cache)        *)
(***************************************************************************)
VARIABLES lru, last, accessed

lruvars == <<lru, last, accessed>>

\* the keys and values the harness calls the cache with
HarnessKeys == 1..(MaxCap + 1)
HarnessValues == {[data |-> 1], [data |-> 2]}

NoCall == [op |-> "none", key |-> 0, value |-> None, ret |-> None, raised |-> FALSE]

\* the order of last access after key was accessed
Touch(order, key) == Append(SelectSeq(order, LAMBDA x : x # key), key)

CallGet(key) ==
    LET r == LRUCache_get(lru, key)
    IN  /\ lru' = r.lru
        /\ last' = [op |-> "get", key |-> key, value |-> None,
                    ret |-> r.value, raised |-> FALSE]
        /\ accessed' = IF r.value # None THEN Touch(accessed, key) ELSE accessed

CallSet(key, value) ==
    LET r == LRUCache_set(lru, key, value)
    IN  /\ lru' = r.lru
        /\ last' = [op |-> "set", key |-> key, value |-> value,
                    ret |-> None, raised |-> r.raised]
        /\ accessed' = IF r.raised THEN accessed ELSE Touch(accessed, key)

(***************************************************************************)
(* The pipeline: the driver and batcher (turbocharger.py), the hydration   *)
(* tasks (turbocharger.py:75-88 around hydration.py:82-254), the client    *)
(* pool (bluesky_api.py:28-48).                                            *)
(*   session_strings  the credentials: TRUE where the login succeeds       *)
(*   bluesky_clients  the pool load_clients built                          *)
(*   modulo, shard    the shard filter's parameters (0: None or 0)         *)
(*   stream           the events the source has still to yield             *)
(*   buffer           TurboCharger.buffer                                  *)
(*   batch            the batch _process_batch took, while it waits for    *)
(*                    a permit                                             *)
(*   semaphore        the free permits of TurboCharger.semaphore           *)
(*   run_pc           where the driver is                                  *)
(*   tasks            the hydration tasks created and not yet exited, a    *)
(*                    bag of task records                                  *)
(*   user_cache, post_cache, cache_lock   Hydration's class-level state    *)
(*   dispatched, store_calls, exits, sink_failed   history: the tasks      *)
(*                    created, the calls of store_records, the exits of    *)
(*                    tasks by cause, whether a sink call has failed       *)
(***************************************************************************)
VARIABLES session_strings, bluesky_clients, modulo, shard, stream, buffer,
          batch, semaphore, run_pc, tasks, user_cache, post_cache,
          cache_lock, dispatched, store_calls, exits, sink_failed

configvars == <<session_strings, modulo, shard>>
drivervars == <<bluesky_clients, stream, buffer, batch, run_pc, dispatched>>
cachevars  == <<user_cache, post_cache, cache_lock>>
sysvars == <<session_strings, bluesky_clients, modulo, shard, stream, buffer,
             batch, semaphore, run_pc, tasks, user_cache, post_cache,
             cache_lock, dispatched, store_calls, exits, sink_failed>>

(***************************************************************************)
(* The sink (egress.py): one Egress object and the tasks that call its     *)
(* store_records and close.                                                *)
(*   egress       the object's fields conn, db_start_time and              *)
(*                current_db_path (0: None), with the connections it has   *)
(*                opened (conn is the place of one of them), the rows of   *)
(*                the database files on disk by path, the old paths        *)
(*                handed to _compress_and_ship_old_db and the rows of the  *)
(*                files shipped and deleted                                *)
(*   writer_lock  Egress._writer_lock: its holder (0: unlocked) and the    *)
(*                tasks waiting for it, first come first                   *)
(*   utcnow       the clock, in seconds                                    *)
(*   sink_calls   the calling tasks: the call each made and where it is    *)
(***************************************************************************)
VARIABLES egress, writer_lock, utcnow, sink_calls

egressvars == <<egress, writer_lock, utcnow, sink_calls>>
vars == <<lruvars, sysvars, egressvars>>

\* turbocharger.py:16, turbocharger.py:41, bluesky_api.py:15, hydration.py:62-63
BATCH_SIZE == 10
PERMITS == 100
CLIENT_BANDWIDTH == 10
DEFAULT_CACHE_SIZE == 20000

\* the iteration orders of a set enumerated in full up to this size;
\* a larger set is iterated in ascending order only
PermuteUpTo == 2

\* the iteration orders of a Python set
Orders(S) ==
    IF Cardinality(S) <= PermuteUpTo
    THEN {f \in [1..Cardinality(S) -> S] :
            \A i, j \in 1..Cardinality(S) : i # j => f[i] # f[j]}
    ELSE {Ascending(S)}

\* a load that keeps every client that logs in
RECURSIVE LoadFrom_NoCap(_, _, _)
LoadFrom_NoCap(ss, i, apis) ==
    IF i > Len(ss) THEN apis
    ELSE IF ss[i]
         THEN LoadFrom_NoCap(ss, i + 1, Append(apis, i))
         ELSE LoadFrom_NoCap(ss, i + 1, apis)

\* BlueskyAPI.load_sessions: the clients of the session strings that log
\* in, while the pool holds fewer than CLIENT_BANDWIDTH
RECURSIVE LoadFrom(_, _, _)
LoadFrom(ss, i, apis) ==
    IF i > Len(ss) THEN apis
    ELSE IF Len(apis) < CLIENT_BANDWIDTH /\ ss[i]
         THEN LoadFrom(ss, i + 1, Append(apis, i))
         ELSE LoadFrom(ss, i + 1, apis)

load_sessions(ss) == LoadFrom(ss, 1, <<>>)

\* the session strings load_sessions calls login with: the loop of
\* bluesky_api.py:32-47 from string i on, with n clients in the pool
RECURSIVE LoginsFrom(_, _, _)
LoginsFrom(ss, i, n) ==
    IF i > Len(ss) THEN {}
    ELSE IF n < CLIENT_BANDWIDTH
         THEN {i} \cup LoginsFrom(ss, i + 1, IF ss[i] THEN n + 1 ELSE n)
         ELSE LoginsFrom(ss, i + 1, n)

\* random.shuffle (turbocharger.py:45): the orders the credentials may be
\* left in
Shuffles(ss) ==
    {s \in [1..Len(ss) -> BOOLEAN] :
       Cardinality({i \in 1..Len(ss) : s[i]})
          = Cardinality({i \in 1..Len(ss) : ss[i]})}

\* a filter that is off whenever shard is 0
ShardFilter_OffAtShardZero(record) ==
    IF modulo = 0 /\ shard = 0 THEN "keep"
    ELSE IF modulo = 0 \/ record.time_us = NoKey THEN "raise"
    ELSE IF shard = 0 \/ record.time_us % modulo = shard THEN "keep" ELSE "drop"

\* the filter of TurboCharger.run (turbocharger.py:54-56): "keep", "drop",
\* or "raise" when the % raises (modulo 0 or None, time_us None)
ShardFilter(record) ==
    IF modulo = 0 /\ shard = 0 THEN "keep"
    ELSE IF modulo = 0 \/ record.time_us = NoKey THEN "raise"
    ELSE IF record.time_us % modulo = shard THEN "keep" ELSE "drop"

\* a task as asyncio.create_task makes it (turbocharger.py:73); base is
\* the caches as they are without this batch, known while no other task
\* has touched them since
NewTask(records) ==
    [pc |-> "created", records |-> records,
     all_dids |-> <<>>, all_uris |-> <<>>,
     missing_dids |-> <<>>, missing_uris |-> <<>>, calls |-> <<>>,
     fetched_users |-> <<>>, fetched_posts |-> <<>>, enriched |-> <<>>,
     base |-> [ok |-> TRUE, u |-> user_cache.cache, p |-> post_cache.cache]]

NoBase == [ok |-> FALSE, u |-> <<>>, p |-> <<>>]
Void(t) == [t EXCEPT !.base = NoBase]

Running == BagToSet(tasks)
InFlight == BagCardinality(tasks)

\* the bag with one task t replaced by t2; the other tasks lose their base
\* when the step touched a cache
Step(t, t2, touched) ==
    LET others == tasks (-) SetToBag({t})
    IN  (IF touched THEN BagOfAll(Void, others) ELSE others) (+) SetToBag({t2})

\* an exit that keeps the permit when the fetch raised
Exit_KeepPermit(t, cause, touched) ==
    /\ tasks' = (IF touched THEN BagOfAll(Void, tasks (-) SetToBag({t}))
                 ELSE tasks (-) SetToBag({t}))
    /\ semaphore' = IF cause = "fetch" THEN semaphore ELSE semaphore + 1
    /\ exits' = [exits EXCEPT ![cause] = @ + 1]

\* the finally of _hydrate_and_release (turbocharger.py:87-88): the task is
\* gone and its permit released
Exit(t, cause, touched) ==
    /\ tasks' = (IF touched THEN BagOfAll(Void, tasks (-) SetToBag({t}))
                 ELSE tasks (-) SetToBag({t}))
    /\ semaphore' = semaphore + 1
    /\ exits' = [exits EXCEPT ![cause] = @ + 1]

\* aiorwlock: a reader enters when no writer holds the lock and none waits
CanRead ==
    /\ cache_lock.w_state = 0
    /\ \A u \in Running : u.pc # "w_wait"

\* a writer that does not wait for the readers
CanWrite_PastReaders == cache_lock.w_state = 0

\* aiorwlock: a writer enters when nobody holds the lock
CanWrite == cache_lock.r_state = 0 /\ cache_lock.w_state = 0

(***************************************************************************)
(* The driver: start_turbo_charger and TurboCharger.run.                   *)
(***************************************************************************)
\* TurboCharger.load_clients (turbocharger.py:44-46, 120)
LoadClients ==
    /\ run_pc = "load"
    /\ session_strings' \in Shuffles(session_strings)
    /\ bluesky_clients' = load_sessions(session_strings')
    /\ run_pc' = "read"
    /\ UNCHANGED <<modulo, shard, stream, buffer, batch, semaphore, tasks, cachevars,
                   dispatched, store_calls, exits, sink_failed, lruvars, egressvars>>

\* one iteration of the async for (turbocharger.py:53-59), up to the
\* acquire of _process_batch (turbocharger.py:69-72)
Read ==
    /\ run_pc = "read"
    /\ stream # <<>>
    /\ LET record == Head(stream)
           verdict == ShardFilter(record)
           buf == IF verdict = "keep" THEN Append(buffer, record) ELSE buffer
       IN  /\ stream' = Tail(stream)
           /\ IF verdict = "raise"
              THEN /\ run_pc' = "crashed"
                   /\ UNCHANGED <<buffer, batch>>
              ELSE IF Len(buf) >= BATCH_SIZE
              THEN /\ batch' = SubSeq(buf, 1, BATCH_SIZE)
                   /\ buffer' = SubSeq(buf, BATCH_SIZE + 1, Len(buf))
                   /\ run_pc' = "acquire"
              ELSE /\ buffer' = buf
                   /\ UNCHANGED <<batch, run_pc>>
    /\ UNCHANGED <<configvars, bluesky_clients, semaphore, tasks, cachevars,
                   dispatched, store_calls, exits, sink_failed, lruvars, egressvars>>

\* an end of stream that does not flush the leftover
EndOfStream_NoFlush ==
    /\ run_pc = "read"
    /\ stream = <<>>
    /\ run_pc' = "done"
    /\ UNCHANGED <<configvars, bluesky_clients, stream, buffer, batch, semaphore,
                   tasks, cachevars, dispatched, store_calls, exits, sink_failed,
                   lruvars, egressvars>>

\* the stream ends (turbocharger.py:61-63): the leftover is flushed
EndOfStream ==
    /\ run_pc = "read"
    /\ stream = <<>>
    /\ IF buffer # <<>>
       THEN /\ batch' = SubSeq(buffer, 1, Min(BATCH_SIZE, Len(buffer)))
            /\ buffer' = SubSeq(buffer, BATCH_SIZE + 1, Len(buffer))
            /\ run_pc' = "acquire_last"
       ELSE /\ run_pc' = "done"
            /\ UNCHANGED <<buffer, batch>>
    /\ UNCHANGED <<configvars, bluesky_clients, stream, semaphore, tasks, cachevars,
                   dispatched, store_calls, exits, sink_failed, lruvars, egressvars>>

\* _process_batch gets its permit and creates the task
\* (turbocharger.py:72-73); after the flush, run returns
Dispatch ==
    /\ run_pc \in {"acquire", "acquire_last"}
    /\ semaphore > 0
    /\ semaphore' = semaphore - 1
    /\ tasks' = tasks (+) SetToBag({NewTask(batch)})
    /\ batch' = <<>>
    /\ dispatched' = dispatched + 1
    /\ run_pc' = IF run_pc = "acquire" THEN "read" ELSE "done"
    /\ UNCHANGED <<configvars, bluesky_clients, stream, buffer, cachevars,
                   store_calls, exits, sink_failed, lruvars, egressvars>>

(***************************************************************************)
(* A hydration task: _hydrate_and_release around Hydration.hydrate_bulk.   *)
(* Each action runs the task from one suspension point to the next.        *)
(***************************************************************************)
\* the task starts: phase 1, then the reader lock is asked for
\* (hydration.py:91-143)
Start(t) ==
    /\ t.pc = "created"
    /\ IF CollectRaises(t.records)
       THEN /\ Exit(t, "parse", FALSE)
            /\ UNCHANGED cache_lock
       ELSE \E od \in Orders(AllDids(t.records)), ou \in Orders(AllUris(t.records)) :
              /\ tasks' = Step(t, [t EXCEPT !.all_dids = od, !.all_uris = ou,
                                            !.pc = IF CanRead THEN "r_held" ELSE "r_wait"],
                               FALSE)
              /\ cache_lock' = IF CanRead
                               THEN [cache_lock EXCEPT !.r_state = @ + 1]
                               ELSE cache_lock
              /\ UNCHANGED <<semaphore, exits>>
    /\ UNCHANGED <<configvars, drivervars, user_cache, post_cache,
                   store_calls, sink_failed, lruvars, egressvars>>

\* a waiting reader gets the lock
AcquireRead(t) ==
    /\ t.pc = "r_wait"
    /\ CanRead
    /\ tasks' = Step(t, [t EXCEPT !.pc = "r_held"], FALSE)
    /\ cache_lock' = [cache_lock EXCEPT !.r_state = @ + 1]
    /\ UNCHANGED <<configvars, drivervars, semaphore, user_cache, post_cache,
                   store_calls, exits, sink_failed, lruvars, egressvars>>

\* a probe that leaves the reader lock held
Probe_KeepsReaderLock(t) ==
    /\ t.pc = "r_held"
    /\ LET pu == ProbeCache(user_cache, t.all_dids)
           pp == ProbeCache(post_cache, t.all_uris)
           touched == pu.lru # user_cache \/ pp.lru # post_cache
       IN  /\ user_cache' = pu.lru
           /\ post_cache' = pp.lru
           /\ cache_lock' = cache_lock
           /\ IF bluesky_clients = <<>>
              THEN Exit(t, "choice", touched)
              ELSE /\ tasks' = Step(t, [t EXCEPT !.pc = "fetching",
                                                 !.missing_dids = pu.missing,
                                                 !.missing_uris = pp.missing,
                                                 !.calls = RemoteCalls(pu.missing, pp.missing)],
                                    touched)
                   /\ UNCHANGED <<semaphore, exits>>
    /\ UNCHANGED <<configvars, drivervars, store_calls, sink_failed, lruvars, egressvars>>

\* phase 2 under the reader lock, the lock released, the client chosen and
\* the remote calls issued (hydration.py:143-168); random.choice raises
\* IndexError on an empty pool
Probe(t) ==
    /\ t.pc = "r_held"
    /\ LET pu == ProbeCache(user_cache, t.all_dids)
           pp == ProbeCache(post_cache, t.all_uris)
           touched == pu.lru # user_cache \/ pp.lru # post_cache
       IN  /\ user_cache' = pu.lru
           /\ post_cache' = pp.lru
           /\ cache_lock' = [cache_lock EXCEPT !.r_state = @ - 1]
           /\ IF bluesky_clients = <<>>
              THEN Exit(t, "choice", touched)
              ELSE /\ tasks' = Step(t, [t EXCEPT !.pc = "fetching",
                                                 !.missing_dids = pu.missing,
                                                 !.missing_uris = pp.missing,
                                                 !.calls = RemoteCalls(pu.missing, pp.missing)],
                                    touched)
                   /\ UNCHANGED <<semaphore, exits>>
    /\ UNCHANGED <<configvars, drivervars, store_calls, sink_failed, lruvars, egressvars>>

\* both bulk fetches return (hydration.py:166-168) and the writer lock is
\* asked for (hydration.py:171)
FetchReturn(t) ==
    /\ t.pc = "fetching"
    /\ tasks' = Step(t, [t EXCEPT !.fetched_users = get_user_data_for_dids(t.missing_dids),
                                  !.fetched_posts = hydrate_records_for_uris(t.missing_uris),
                                  !.pc = IF CanWrite THEN "w_held" ELSE "w_wait"],
                     FALSE)
    /\ cache_lock' = IF CanWrite THEN [cache_lock EXCEPT !.w_state = @ + 1]
                     ELSE cache_lock
    /\ UNCHANGED <<configvars, drivervars, semaphore, user_cache, post_cache,
                   store_calls, exits, sink_failed, lruvars, egressvars>>

\* one of the remote calls raises: hydrate_bulk raises out of the gather
FetchFail(t) ==
    /\ t.pc = "fetching"
    /\ t.calls # <<>>
    /\ Exit(t, "fetch", FALSE)
    /\ UNCHANGED <<configvars, drivervars, cachevars, store_calls, sink_failed, lruvars, egressvars>>

\* a waiting writer gets the lock
AcquireWrite(t) ==
    /\ t.pc = "w_wait"
    /\ CanWrite
    /\ tasks' = Step(t, [t EXCEPT !.pc = "w_held"], FALSE)
    /\ cache_lock' = [cache_lock EXCEPT !.w_state = @ + 1]
    /\ UNCHANGED <<configvars, drivervars, semaphore, user_cache, post_cache,
                   store_calls, exits, sink_failed, lruvars, egressvars>>

\* phase 4 under the writer lock, phase 5, and the call of store_records
\* (hydration.py:171-254, turbocharger.py:83-85)
Publish(t) ==
    /\ t.pc = "w_held"
    /\ \E su \in {StoreFetched(user_cache, t.fetched_users)} :
       \E sp \in {IF su.raised THEN [lru |-> post_cache, raised |-> FALSE]
                   ELSE StoreFetched(post_cache, t.fetched_posts)} :
       \E ru \in {ReadBack(su.lru, t.all_dids)} :
       \E rp \in {ReadBack(sp.lru, t.all_uris)} :
       LET raised == su.raised \/ sp.raised
       IN  /\ cache_lock' = [cache_lock EXCEPT !.w_state = @ - 1]
           /\ IF raised
              THEN /\ user_cache' = su.lru
                   /\ post_cache' = sp.lru
                   /\ Exit(t, "publish", TRUE)
                   /\ UNCHANGED store_calls
              ELSE /\ user_cache' = ru.lru
                   /\ post_cache' = rp.lru
                   /\ tasks' = Step(t, [t EXCEPT !.pc = "storing",
                                                 !.enriched = Assemble(t.records, ru.map, rp.map),
                                                 !.base = NoBase],
                                    TRUE)
                   /\ store_calls' = store_calls + 1
                   /\ UNCHANGED <<semaphore, exits>>
    /\ UNCHANGED <<configvars, drivervars, sink_failed, lruvars, egressvars>>

\* store_records returns (turbocharger.py:85-88)
StoreReturn(t) ==
    /\ t.pc = "storing"
    /\ Exit(t, "stored", FALSE)
    /\ UNCHANGED <<configvars, drivervars, cachevars, store_calls, sink_failed, lruvars, egressvars>>

\* store_records raises (turbocharger.py:85, 87-88)
StoreFail(t) ==
    /\ t.pc = "storing"
    /\ Exit(t, "stored", FALSE)
    /\ sink_failed' = TRUE
    /\ UNCHANGED <<configvars, drivervars, cachevars, store_calls, lruvars, egressvars>>

Next ==
    \/ LoadClients
    \/ Read
    \/ EndOfStream
    \/ Dispatch
    \/ \E t \in Running : Start(t)
    \/ \E t \in Running : AcquireRead(t)
    \/ \E t \in Running : Probe(t)
    \/ \E t \in Running : FetchReturn(t)
    \/ \E t \in Running : FetchFail(t)
    \/ \E t \in Running : AcquireWrite(t)
    \/ \E t \in Running : Publish(t)
    \/ \E t \in Running : StoreReturn(t)
    \/ \E t \in Running : StoreFail(t)

(***************************************************************************)
(* The sink: Egress.store_records and Egress.close (egress.py:143-182).    *)
(* A task runs from one await to the next in one step; the awaits of       *)
(* _create_new_db inside the critical section are taken as points where    *)
(* the task may be suspended.  The calls of sqlite3 are taken to succeed   *)
(* on an open connection.                                                  *)
(***************************************************************************)
\* most tasks calling the sink
MaxCalls == 2

\* the sizes of the batches the sink is called with: none, the leftover of
\* one record, a full batch
BatchSizes == {0, 1, BATCH_SIZE}

\* how far the clock is followed: single seconds and whole rotation periods
MaxSeconds == 1
MaxMinutes == 1

\* egress.py:24, in seconds
ROTATION_MINUTES == 1
RotationPeriod == 60 * ROTATION_MINUTES

Callers == 1..MaxCalls

\* a task that has not called yet
Idle == [op |-> "none", pc |-> "idle", n |-> 0]

\* Egress.__init__ (egress.py:26-46)
IdleEgress ==
    /\ egress = [conn |-> 0, db_start_time |-> 0, current_db_path |-> 0,
                 connections |-> <<>>, files |-> <<>>,
                 shipping |-> {}, shipped |-> <<>>]
    /\ writer_lock = [holder |-> 0, waiters |-> <<>>]
    /\ utcnow = 1
    /\ sink_calls = [i \in Callers |-> Idle]

\* function f with x mapped to v
With(f, x, v) == [y \in DOMAIN f \cup {x} |-> IF y = x THEN v ELSE f[y]]

\* function f without x
Without(f, x) == [y \in DOMAIN f \ {x} |-> f[y]]

\* Egress._create_new_db (egress.py:48-70): the old path handed to a
\* shipping task, the path named after the clock to the second, the file
\* opened (and created if it is not there), db_start_time set
create_new_db(e, rotate_old_db_path) ==
    [e EXCEPT !.shipping = IF rotate_old_db_path # 0
                           THEN @ \cup {rotate_old_db_path} ELSE @,
              !.current_db_path = utcnow,
              !.connections = Append(@, [path |-> utcnow, open |-> TRUE]),
              !.conn = Len(e.connections) + 1,
              !.files = IF utcnow \in DOMAIN @ THEN @ ELSE With(@, utcnow, <<>>),
              !.db_start_time = utcnow]

\* self.conn.close(); self.conn = None (egress.py:155-156, 181-182)
close_conn(e) ==
    [e EXCEPT !.connections[e.conn].open = FALSE, !.conn = 0]

\* the rotation is due (egress.py:149-153)
RotationDue(e) ==
    e.db_start_time # 0 /\ utcnow - e.db_start_time >= RotationPeriod

\* the connection self.conn can take an insert: it is there, open, and its
\* file is on disk
Insertable(e) ==
    /\ e.conn # 0
    /\ e.connections[e.conn].open
    /\ e.connections[e.conn].path \in DOMAIN e.files

\* egress.py:158-174: the n rows of task i inserted and committed through
\* self.conn, and the lock released; the call raises, the lock released,
\* when self.conn cannot take them
StoreInsert(e, i, n) ==
    IF Insertable(e)
    THEN [e  |-> [e EXCEPT !.files[e.connections[e.conn].path] =
                              @ \o [k \in 1..n |-> i]],
          pc |-> "pushing"]
    ELSE [e |-> e, pc |-> "raised_db"]

\* egress.py:149-174: the rotation check; a rotation ends at the await of
\* _create_new_db, and without one the rows are inserted
StoreFromCheck(e, i, n) ==
    IF RotationDue(e)
    THEN IF e.conn = 0 THEN [e |-> e, pc |-> "raised_db"]
         ELSE [e  |-> create_new_db(close_conn(e), e.current_db_path),
               pc |-> "rotated"]
    ELSE StoreInsert(e, i, n)

\* the pcs inside async with self._writer_lock
SectionPcs == {"locked", "created", "rotated"}

\* a lock that lets every task in
CanAcquire_Held(i) == TRUE

\* asyncio.Lock.acquire (egress.py:46, 146, 179): the lock is free and no
\* other task has waited for it longer
CanAcquire(i) ==
    /\ writer_lock.holder = 0
    /\ \/ writer_lock.waiters = <<>>
       \/ Head(writer_lock.waiters) = i

\* the lock after task i asked for it, and the pc of the task
Acquire(i) ==
    IF CanAcquire(i)
    THEN [lock |-> [writer_lock EXCEPT !.holder = i], pc |-> "locked"]
    ELSE [lock |-> [writer_lock EXCEPT !.waiters = Append(@, i)],
          pc   |-> "lock_wait"]

\* the lock after its holder left the section with the given pc
Released(pc) ==
    IF pc \in SectionPcs THEN writer_lock
    ELSE [writer_lock EXCEPT !.holder = 0]

\* store_records is called with n records (egress.py:143-146): an empty
\* batch returns at once, another asks for the lock
CallStoreRecords(i, n) ==
    /\ sink_calls[i].pc = "idle"
    /\ IF n = 0
       THEN /\ sink_calls' = [sink_calls EXCEPT ![i] = [op |-> "store", pc |-> "returned", n |-> n]]
            /\ UNCHANGED writer_lock
       ELSE /\ sink_calls' = [sink_calls EXCEPT ![i] = [op |-> "store", pc |-> Acquire(i).pc, n |-> n]]
            /\ writer_lock' = Acquire(i).lock
    /\ UNCHANGED <<egress, utcnow, lruvars, sysvars>>

\* close is called (egress.py:178-179)
CallClose(i) ==
    /\ sink_calls[i].pc = "idle"
    /\ sink_calls' = [sink_calls EXCEPT ![i] = [op |-> "close", pc |-> Acquire(i).pc, n |-> 0]]
    /\ writer_lock' = Acquire(i).lock
    /\ UNCHANGED <<egress, utcnow, lruvars, sysvars>>

\* a waiting task gets the lock
LockGranted(i) ==
    /\ sink_calls[i].pc = "lock_wait"
    /\ CanAcquire(i)
    /\ writer_lock' = [holder  |-> i,
                       waiters |-> SelectSeq(writer_lock.waiters,
                                             LAMBDA j : j # i)]
    /\ sink_calls' = [sink_calls EXCEPT ![i].pc = "locked"]
    /\ UNCHANGED <<egress, utcnow, lruvars, sysvars>>

\* the step of task i of store_records that leaves e and pc
StoreStep(i, r) ==
    /\ egress' = r.e
    /\ sink_calls' = [sink_calls EXCEPT ![i].pc = r.pc]
    /\ writer_lock' = Released(r.pc)
    /\ UNCHANGED <<utcnow, lruvars, sysvars>>

\* store_records with the lock (egress.py:147-174): without a connection a
\* database is created, up to the await; with one the check follows
StoreLocked(i) ==
    /\ sink_calls[i].op = "store"
    /\ sink_calls[i].pc = "locked"
    /\ StoreStep(i, IF egress.conn = 0
                    THEN [e |-> create_new_db(egress, 0), pc |-> "created"]
                    ELSE StoreFromCheck(egress, i, sink_calls[i].n))

\* store_records after the await of line 148 (egress.py:149-174)
StoreCreated(i) ==
    /\ sink_calls[i].pc = "created"
    /\ StoreStep(i, StoreFromCheck(egress, i, sink_calls[i].n))

\* store_records after the await of line 157 (egress.py:158-174)
StoreRotated(i) ==
    /\ sink_calls[i].pc = "rotated"
    /\ StoreStep(i, StoreInsert(egress, i, sink_calls[i].n))

\* push_batch_to_stream returns (egress.py:176)
PushReturn(i) ==
    /\ sink_calls[i].pc = "pushing"
    /\ sink_calls' = [sink_calls EXCEPT ![i].pc = "returned"]
    /\ UNCHANGED <<egress, writer_lock, utcnow, lruvars, sysvars>>

\* push_batch_to_stream raises (egress.py:127-141, 176)
PushFail(i) ==
    /\ sink_calls[i].pc = "pushing"
    /\ sink_calls' = [sink_calls EXCEPT ![i].pc = "raised_push"]
    /\ UNCHANGED <<egress, writer_lock, utcnow, lruvars, sysvars>>

\* close with the lock (egress.py:180-182)
CloseLocked(i) ==
    /\ sink_calls[i].op = "close"
    /\ sink_calls[i].pc = "locked"
    /\ egress' = IF egress.conn # 0 THEN close_conn(egress) ELSE egress
    /\ sink_calls' = [sink_calls EXCEPT ![i].pc = "returned"]
    /\ writer_lock' = Released("returned")
    /\ UNCHANGED <<utcnow, lruvars, sysvars>>

\* _compress_and_ship_old_db (egress.py:72-102) uploads the file of path
\* and deletes it; a path that is not on disk is skipped
Ship(path) ==
    /\ path \in egress.shipping
    /\ egress' = IF path \in DOMAIN egress.files
                 THEN [egress EXCEPT !.shipping = @ \ {path},
                                     !.shipped = With(@, path, egress.files[path]),
                                     !.files = Without(@, path)]
                 ELSE [egress EXCEPT !.shipping = @ \ {path}]
    /\ UNCHANGED <<writer_lock, utcnow, sink_calls, lruvars, sysvars>>

\* the zip or the upload fails (egress.py:98-102): the file stays
ShipFail(path) ==
    /\ path \in egress.shipping
    /\ egress' = [egress EXCEPT !.shipping = @ \ {path}]
    /\ UNCHANGED <<writer_lock, utcnow, sink_calls, lruvars, sysvars>>

\* datetime.utcnow() (egress.py:51, 70, 151) moves on, by a second or by a
\* rotation period
Tick(d) ==
    /\ IF d = 1 THEN (utcnow - 1) % RotationPeriod < MaxSeconds
       ELSE (utcnow - 1) \div RotationPeriod < MaxMinutes
    /\ utcnow' = utcnow + d
    /\ UNCHANGED <<egress, writer_lock, sink_calls, lruvars, sysvars>>

NextEgress ==
    \/ \E i \in Callers, n \in BatchSizes : CallStoreRecords(i, n)
    \/ \E i \in Callers : CallClose(i)
    \/ \E i \in Callers : LockGranted(i)
    \/ \E i \in Callers : StoreLocked(i)
    \/ \E i \in Callers : StoreCreated(i)
    \/ \E i \in Callers : StoreRotated(i)
    \/ \E i \in Callers : PushReturn(i)
    \/ \E i \in Callers : PushFail(i)
    \/ \E i \in Callers : CloseLocked(i)
    \/ \E path \in egress.shipping : Ship(path)
    \/ \E path \in egress.shipping : ShipFail(path)
    \/ \E d \in {1, RotationPeriod} : Tick(d)

(***************************************************************************)
(* Initial states.                                                         *)
(***************************************************************************)
NoExits == [parse |-> 0, choice |-> 0, fetch |-> 0, publish |-> 0, stored |-> 0]

\* the LRU harness at rest
IdleLRU ==
    /\ lru = LRUCache(0)
    /\ last = NoCall
    /\ accessed = <<>>

\* the state after construction (turbocharger.py:25-42, hydration.py:62-69),
\* for the given credentials, cache sizes and source
Constructed(ss, user_cache_size, post_cache_size, source) ==
    /\ session_strings = ss
    /\ bluesky_clients = <<>>
    /\ modulo = 0
    /\ shard = 0
    /\ stream = source
    /\ buffer = <<>>
    /\ batch = <<>>
    /\ semaphore = PERMITS
    /\ run_pc = "load"
    /\ tasks = EmptyBag
    /\ user_cache = LRUCache(user_cache_size)
    /\ post_cache = LRUCache(post_cache_size)
    /\ cache_lock = [r_state |-> 0, w_state |-> 0]
    /\ dispatched = 0
    /\ store_calls = 0
    /\ exits = NoExits
    /\ sink_failed = FALSE
    /\ IdleEgress

\* n copies of one event
Block(event, n) == [i \in 1..n |-> event]

\* largest cache size configured in Spec
MaxCacheSize == 2

\* the events of the sources of Spec
SpecEvents ==
    {RawEvent(1, 2, 1, NoKey, NoKey),
     RawEvent(1, 3, NoKey, NoKey, 2),
     RawEvent(2, NoKey, 3, 1, NoKey)}

\* the sources of Spec: two full batches, a full batch and a leftover
\* event, and one source of two full batches and a leftover event
SpecSources ==
    {Block(e1, BATCH_SIZE) \o Block(e2, BATCH_SIZE) : e1 \in SpecEvents, e2 \in SpecEvents}
    \cup {Block(e1, BATCH_SIZE) \o <<e2>> : e1 \in SpecEvents, e2 \in SpecEvents}
    \cup {Block(RawEvent(1, 2, 1, NoKey, NoKey), BATCH_SIZE)
          \o Block(RawEvent(1, 3, NoKey, NoKey, 2), BATCH_SIZE)
          \o <<RawEvent(2, NoKey, 3, 1, NoKey)>>}

Init ==
    /\ IdleLRU
    /\ \E ss \in {<<TRUE>>, <<FALSE>>},
          us \in 1..MaxCacheSize, ps \in 1..MaxCacheSize,
          source \in SpecSources :
         Constructed(ss, us, ps, source)

Spec == Init /\ [][Next]_vars

(***************************************************************************)
(* SpecAdmit: the pipeline from a state in which all but one of the        *)
(* permits are taken.  The source has yielded PERMITS - 1 batches of an    *)
(* event without references; each was dispatched and hydrated, and all are *)
(* waiting in store_records.  The source has two more batches to yield.    *)
(***************************************************************************)
BareEvent == RawEvent(NoKey, NoKey, NoKey, NoKey, NoKey)

\* a task of a batch of bare events, waiting in store_records
StoringBare ==
    [pc |-> "storing", records |-> Block(BareEvent, BATCH_SIZE),
     all_dids |-> <<>>, all_uris |-> <<>>,
     missing_dids |-> <<>>, missing_uris |-> <<>>, calls |-> <<>>,
     fetched_users |-> <<>>, fetched_posts |-> <<>>,
     enriched |-> Assemble(Block(BareEvent, BATCH_SIZE), <<>>, <<>>),
     base |-> NoBase]

InitAdmit ==
    /\ IdleLRU
    /\ session_strings = <<TRUE>>
    /\ bluesky_clients = load_sessions(<<TRUE>>)
    /\ modulo = 0
    /\ shard = 0
    /\ stream = Block(RawEvent(1, 2, 1, NoKey, NoKey), BATCH_SIZE)
                \o Block(BareEvent, BATCH_SIZE)
    /\ buffer = <<>>
    /\ batch = <<>>
    /\ semaphore = 1
    /\ run_pc = "read"
    /\ tasks = [t \in {StoringBare} |-> PERMITS - 1]
    /\ user_cache = LRUCache(DEFAULT_CACHE_SIZE)
    /\ post_cache = LRUCache(DEFAULT_CACHE_SIZE)
    /\ cache_lock = [r_state |-> 0, w_state |-> 0]
    /\ dispatched = PERMITS - 1
    /\ store_calls = PERMITS - 1
    /\ exits = NoExits
    /\ sink_failed = FALSE
    /\ IdleEgress

\* the clients are loaded already
NextAdmit ==
    \/ Read
    \/ EndOfStream
    \/ Dispatch
    \/ \E t \in Running : Start(t)
    \/ \E t \in Running : AcquireRead(t)
    \/ \E t \in Running : Probe(t)
    \/ \E t \in Running : FetchReturn(t)
    \/ \E t \in Running : FetchFail(t)
    \/ \E t \in Running : AcquireWrite(t)
    \/ \E t \in Running : Publish(t)
    \/ \E t \in Running : StoreReturn(t)
    \/ \E t \in Running : StoreFail(t)

SpecAdmit == InitAdmit /\ [][NextAdmit]_vars

\* SpecAdmit under fair scheduling: the event loop runs a callback that is
\* ready, and a remote call or a sink call awaited returns or raises, so a
\* step that stays possible is taken
SpecAdmitLive == InitAdmit /\ [][NextAdmit]_vars /\ WF_vars(NextAdmit)

(***************************************************************************)
(* SpecBatch: single hydrations of batches of every shape.  The sources    *)
(* are one event of every shape of the nodes hydrate_bulk reads, well      *)
(* formed or not, and batches of ten different events that reference       *)
(* twenty DIDs and thirty URIs, after a batch that warms the caches.       *)
(***************************************************************************)
NodeKinds == {"dict", "missing", "null", "wrong"}
ListKinds == {"list", "missing", "null", "wrong"}
ItemKinds == {"dict", "absent", "null", "wrong"}

\* the shapes of commit.record.embed
EmbedShapes ==
    {e \in [embed : NodeKinds,
            embed_type : {"none", "other", "app.bsky.embed.record"},
            embed_record : NodeKinds, quote_uri : {NoKey, 4}] :
       /\ (e.embed = "dict") <=> (e.embed_type # "none")
       /\ e.embed_type # "app.bsky.embed.record" => e.embed_record = "missing"
       /\ (e.embed_record = "dict") <=> (e.quote_uri # NoKey)}

\* the shapes of commit.record.facets, of at most one facet with at most
\* one feature
FacetShapes ==
    {f \in [facets : ListKinds, facet : ItemKinds, features : ListKinds,
            feature : ItemKinds,
            feature_type : {"none", "other", "app.bsky.richtext.facet#mention"},
            mention_did : {NoKey, 2}] :
       /\ f.facets # "list" => f.facet = "absent"
       /\ f.facet # "dict" => f.features = "missing"
       /\ f.features # "list" => f.feature = "absent"
       /\ (f.feature = "dict") <=> (f.feature_type # "none")
       /\ f.feature_type # "app.bsky.richtext.facet#mention" => f.mention_did = NoKey}

\* the shapes of commit.record.reply
ReplyShapes ==
    {r \in [reply : NodeKinds, parent : NodeKinds, parent_uri : {NoKey, 1},
            root : NodeKinds, root_uri : {NoKey, 2}] :
       /\ r.reply # "dict" => (r.parent = "missing" /\ r.root = "missing")
       /\ (r.parent = "dict") <=> (r.parent_uri # NoKey)
       /\ (r.root = "dict") <=> (r.root_uri # NoKey)}

\* an event of DID 1 with the given commit, record, embed, facets and reply
Shaped(commit, record, e, f, r) ==
    [did |-> 1, time_us |-> 1,
     commit |-> commit, collection |-> IF commit = "dict" THEN 1 ELSE NoKey,
     rkey |-> IF commit = "dict" THEN 1 ELSE NoKey,
     record |-> record, rec_time_us |-> NoKey,
     embed |-> e.embed, embed_type |-> e.embed_type,
     embed_record |-> e.embed_record, quote_uri |-> e.quote_uri,
     facets |-> f.facets, facet |-> f.facet, features |-> f.features,
     feature |-> f.feature, feature_type |-> f.feature_type,
     mention_did |-> f.mention_did,
     reply |-> r.reply, parent |-> r.parent, parent_uri |-> r.parent_uri,
     root |-> r.root, root_uri |-> r.root_uri]

NoEmbed == [embed |-> "missing", embed_type |-> "none",
            embed_record |-> "missing", quote_uri |-> NoKey]
NoFacets == [facets |-> "missing", facet |-> "absent", features |-> "missing",
             feature |-> "absent", feature_type |-> "none", mention_did |-> NoKey]
NoReply == [reply |-> "missing", parent |-> "missing", parent_uri |-> NoKey,
            root |-> "missing", root_uri |-> NoKey]

\* every shape of an event
EventShapes ==
    {Shaped("dict", "dict", e, f, r) :
        e \in EmbedShapes, f \in FacetShapes, r \in ReplyShapes}
    \cup {Shaped("dict", record, NoEmbed, NoFacets, NoReply) :
            record \in NodeKinds \ {"dict"}}
    \cup {Shaped(commit, "missing", NoEmbed, NoFacets, NoReply) :
            commit \in NodeKinds \ {"dict"}}

\* the i-th of ten events that reference different DIDs and URIs
WideEvent(i) == RawEvent(i, 10 + i, 3 * i - 2, 3 * i - 1, 3 * i)

\* a batch of the ten wide events
WideBatch == [i \in 1..BATCH_SIZE |-> WideEvent(i)]

\* a batch of the first k wide events, the k-th repeated to fill it
WarmBatch(k) == [i \in 1..BATCH_SIZE |-> WideEvent(Min(i, k))]

BatchSources ==
    {<<e>> : e \in EventShapes}
    \cup {WarmBatch(k) \o WideBatch : k \in {1, 2, 10}}
    \cup {Block(WideEvent(2), BATCH_SIZE) \o Block(WideEvent(2), BATCH_SIZE)}

InitBatch ==
    /\ IdleLRU
    /\ \E source \in BatchSources :
         Constructed(<<TRUE>>, DEFAULT_CACHE_SIZE, DEFAULT_CACHE_SIZE, source)

SpecBatch == InitBatch /\ [][Next]_vars

(***************************************************************************)
(* SpecShard: the pipeline with a shard filter.  modulo and shard are the  *)
(* integers --modulo and --shard give (0 also stands for an unset          *)
(* modulo); the events of the source differ in their time_us, and one      *)
(* source has an event without time_us.                                    *)
(***************************************************************************)
\* largest modulo and shard configured in SpecShard
MaxModulo == 2

\* an event of DID 1 with the given top-level time_us (NoKey: no time_us)
TimedEvent(k) == [RawEvent(1, NoKey, NoKey, NoKey, NoKey) EXCEPT !.time_us = k]

\* the events 1..n in order
Ticking(n) == [i \in 1..n |-> TimedEvent(i)]

\* the place of the event without time_us in the second source
Untimed == 6

ShardSources ==
    {Ticking(2 * BATCH_SIZE + 3),
     [i \in 1..(BATCH_SIZE + 2) |-> TimedEvent(IF i = Untimed THEN NoKey ELSE i)]}

InitShard ==
    /\ IdleLRU
    /\ session_strings = <<TRUE>>
    /\ bluesky_clients = <<>>
    /\ modulo \in 0..MaxModulo
    /\ shard \in 0..MaxModulo
    /\ stream \in ShardSources
    /\ buffer = <<>>
    /\ batch = <<>>
    /\ semaphore = PERMITS
    /\ run_pc = "load"
    /\ tasks = EmptyBag
    /\ user_cache = LRUCache(DEFAULT_CACHE_SIZE)
    /\ post_cache = LRUCache(DEFAULT_CACHE_SIZE)
    /\ cache_lock = [r_state |-> 0, w_state |-> 0]
    /\ dispatched = 0
    /\ store_calls = 0
    /\ exits = NoExits
    /\ sink_failed = FALSE
    /\ IdleEgress

SpecShard == InitShard /\ [][Next]_vars

\* most session strings given, and most of them whose login fails
MaxSessions == 12
MaxFailures == 1

\* the credentials of SpecPool: up to MaxSessions session strings of which
\* up to MaxFailures fail to log in
PoolSessions ==
    UNION {{ss \in [1..n -> BOOLEAN] :
              Cardinality({i \in 1..n : ~ss[i]}) <= MaxFailures} :
           n \in 0..MaxSessions}

\* the source of SpecPool: two full batches
PoolSource == Block(RawEvent(1, 2, 1, NoKey, NoKey), 2 * BATCH_SIZE)

InitPool ==
    /\ IdleLRU
    /\ \E ss \in PoolSessions :
          Constructed(ss, DEFAULT_CACHE_SIZE, DEFAULT_CACHE_SIZE, PoolSource)

SpecPool == InitPool /\ [][Next]_vars

\* the system at rest, for the LRU harness
IdleSystem == Constructed(<<>>, DEFAULT_CACHE_SIZE, DEFAULT_CACHE_SIZE, <<>>)

NextLRU ==
    \/ \E key \in HarnessKeys : CallGet(key) /\ UNCHANGED <<sysvars, egressvars>>
    \/ \E key \in HarnessKeys, value \in HarnessValues :
         CallSet(key, value) /\ UNCHANGED <<sysvars, egressvars>>

\* the LRU harness beside the system at rest
InitHarness ==
    /\ IdleSystem
    /\ \E n \in 0..MaxCap : lru = LRUCache(n)
    /\ last = NoCall
    /\ accessed = <<>>

SpecLRU == InitHarness /\ [][NextLRU]_vars

\* the sink alone, beside the pipeline and the LRU harness at rest
InitEgress ==
    /\ IdleLRU
    /\ IdleSystem

SpecEgress == InitEgress /\ [][NextEgress]_vars

(***************************************************************************)
(* Claims about the LRU cache, checked under SpecLRU.                      *)
(***************************************************************************)

\* the present key whose last get-hit or set is oldest
OldestAccessed(cache, order) ==
    order[CHOOSE i \in 1..Len(order) :
            /\ order[i] \in KeysOf(cache)
            /\ \A j \in 1..(i - 1) : order[j] \notin KeysOf(cache)]

\* C1: for every capacity n and every sequence of set and get calls on a
\* cache created with max_size = n, the cache holds at most n keys after
\* each call, and no call raises.
C1_SizeBoundedNoRaise ==
    /\ Len(lru.cache) <= lru.max_size
    /\ ~last.raised

\* C2: get(k) of an absent key returns None and changes nothing; get(k) of a
\* present key returns k's stored value, makes k the most recently used key
\* and leaves the other keys' relative order and all values unchanged.
C2_GetFrame ==
    [][ last'.op = "get" =>
          LET k == last'.key
          IN  IF ~Has(lru.cache, k)
              THEN /\ last'.ret = None
                   /\ lru' = lru
              ELSE /\ last'.ret = Lookup(lru.cache, k)
                   /\ Last(lru'.cache).k = k
                   /\ Lookup(lru'.cache, k) = Lookup(lru.cache, k)
                   /\ Pop(lru'.cache, k) = Pop(lru.cache, k)
                   /\ lru'.max_size = lru.max_size ]_lruvars

\* C2 witness: a get has hit a key of a cache holding several keys
C2_Witness ==
    /\ last.op = "get"
    /\ last.ret # None
    /\ Len(lru.cache) >= 2
    /\ Last(lru.cache).k = last.key

\* C3: a set that returns removes an entry only when its key is new and the
\* cache holds max_size keys, and then exactly one, the key whose last
\* get-hit or set is oldest; setting a present key removes nothing, updates
\* the value and makes the key most recently used; no other call removes
\* an entry.
C3_SetEvictsOnlyLRU ==
    [][ LET before  == lru.cache
            after   == lru'.cache
            removed == KeysOf(before) \ KeysOf(after)
            k       == last'.key
            entry   == [k |-> last'.key, v |-> last'.value]
        IN  /\ removed # {} =>
                 /\ last'.op = "set"
                 /\ ~Has(before, k)
                 /\ Len(before) = lru.max_size
                 /\ removed = {OldestAccessed(before, accessed)}
            /\ (last'.op = "set" /\ ~last'.raised) =>
                 /\ Has(before, k) =>
                      /\ removed = {}
                      /\ Pop(after, k) = Pop(before, k)
                      /\ Last(after) = entry
                 /\ (~Has(before, k) /\ Len(before) >= lru.max_size) =>
                      after = Append(Pop(before, OldestAccessed(before, accessed)), entry)
                 /\ (~Has(before, k) /\ Len(before) < lru.max_size) =>
                      after = Append(before, entry) ]_lruvars

\* C3 witness: a set of a new key into a full cache of several keys has
\* evicted a key
C3_Witness ==
    /\ last.op = "set"
    /\ ~last.raised
    /\ lru.max_size >= 2
    /\ Len(lru.cache) = lru.max_size
    /\ Last(lru.cache).k = last.key
    /\ \E i \in 1..Len(accessed) : accessed[i] \notin KeysOf(lru.cache)

(***************************************************************************)
(* Claims about admission, checked under SpecAdmit.                        *)
(***************************************************************************)
Exited == exits.parse + exits.choice + exits.fetch + exits.publish + exits.stored

\* C4: the tasks dispatched and not finished plus the free permits are
\* PERMITS; the producer waiting in _process_batch can go on exactly when
\* fewer than PERMITS batches are in flight; once every dispatched task has
\* exited, by whatever path, all PERMITS permits are free.
C4_PermitsConserved ==
    /\ InFlight = dispatched - Exited
    /\ InFlight + semaphore = PERMITS
    /\ InFlight <= PERMITS
    /\ run_pc \in {"acquire", "acquire_last"} =>
          ((ENABLED Dispatch) <=> InFlight < PERMITS)
    /\ dispatched = Exited => semaphore = PERMITS

\* C4 witness: the producer is blocked in _process_batch with PERMITS
\* batches in flight
C4_Witness ==
    /\ run_pc = "acquire"
    /\ InFlight = PERMITS
    /\ semaphore = 0
    /\ ~ENABLED Dispatch

(***************************************************************************)
(* Claims about hydrate_bulk under concurrency, checked under Spec.        *)
(***************************************************************************)
\* the elements of a list, and the keys of a list of entries
Range(seq) == {seq[i] : i \in 1..Len(seq)}
EntryKeys(map) == {map[i].k : i \in 1..Len(map)}

\* the task that holds the writer lock
Writer == CHOOSE t \in Running : t.pc = "w_held"

\* this step is the successful return of the writer's hydrate_bulk
Returns ==
    /\ cache_lock.w_state = 1
    /\ cache_lock'.w_state = 0
    /\ store_calls' = store_calls + 1

Abandons(t) ==
    /\ t.pc = "fetching"
    /\ exits'.fetch = exits.fetch + 1
    /\ tasks' = tasks (-) SetToBag({t})

\* C6: when a bulk fetch of a hydration raises, store_records is not called
\* for the batch, its permit is released, the other tasks are as they were,
\* and both caches are as they would be had the batch never been started.
C6_AbandonedBatchLeavesNoTrace ==
    [][ \A t \in Running : Abandons(t) =>
          /\ store_calls' = store_calls
          /\ semaphore' = semaphore + 1
          /\ t.base.ok => (user_cache'.cache = t.base.u /\ post_cache'.cache = t.base.p) ]_vars

\* C10: when the run has ended, no dispatched batch is still in flight.
C10_RunEndsDrained == run_pc = "done" => dispatched = Exited

(***************************************************************************)
(* Claims about one hydration, checked under SpecBatch.                    *)
(***************************************************************************)
\* the least c with n <= 25 * c
CeilPages(n) == CHOOSE c \in 0..n : n <= 25 * c /\ (c = 0 \/ n > 25 * (c - 1))

\* the keys of the calls of one api, in the order requested
RECURSIVE Requested(_, _)
Requested(calls, api) ==
    IF calls = <<>> THEN <<>>
    ELSE (IF Head(calls).api = api THEN Head(calls).keys ELSE <<>>)
         \o Requested(Tail(calls), api)

CallsOf(calls, api) == SelectSeq(calls, LAMBDA c : c.api = api)

\* the calls of a hydration are those of the keys not in cache
CallsMatch(calls, api, keys, cache) ==
    /\ Range(Requested(calls, api)) = keys \ KeysOf(cache)
    /\ Len(Requested(calls, api)) = Cardinality(keys \ KeysOf(cache))
    /\ \A i \in 1..Len(calls) : Len(calls[i].keys) \in 1..25
    /\ Len(CallsOf(calls, api)) = CeilPages(Cardinality(keys \ KeysOf(cache)))

\* C7: the DIDs a hydration requests are all_dids minus the DIDs in the
\* profile cache at the probe, the URIs all_uris minus the URIs in the post
\* cache at the probe, each key once, in calls of at most 25 keys,
\* ceil(missing / 25) calls per kind and none for nothing missing.
C7_RemoteCallsCoverMissing ==
    [][ \A t \in Running, t2 \in BagToSet(tasks') :
          ( /\ t.pc = "r_held"
            /\ t2.pc = "fetching"
            /\ t2.records = t.records
            /\ CopiesIn(t2, tasks') > CopiesIn(t2, tasks) )
          => /\ CallsMatch(t2.calls, "get_profiles", AllDids(t.records), user_cache.cache)
             /\ CallsMatch(t2.calls, "get_posts", AllUris(t.records), post_cache.cache) ]_vars

\* C7 witness: a hydration with URIs cached at the probe has more than 25
\* URIs missing and requests them in two calls
C7_Witness ==
    \E t \in Running :
       /\ t.pc = "fetching"
       /\ Len(t.missing_uris) > 25
       /\ Len(t.missing_uris) < Len(t.all_uris)
       /\ Len(CallsOf(t.calls, "get_posts")) = 2

\* C8: the list a hydration returns is as long as the batch, and the
\* message of its i-th record is the i-th event of the batch.
C8_OutputKeepsBatch ==
    \A t \in Running :
       t.pc = "storing" =>
          /\ Len(t.enriched) = Len(t.records)
          /\ \A i \in 1..Len(t.records) : t.enriched[i].message = t.records[i]

\* C8 witness: a hydration has returned the records of a full batch of
\* different events, one of them of an unresolved DID
C8_Witness ==
    \E t \in Running :
       /\ t.pc = "storing"
       /\ Len(t.enriched) = BATCH_SIZE
       /\ t.records[1] # t.records[2]
       /\ \E i \in 1..Len(t.enriched) : t.enriched[i].hydrated_metadata.user = None

\* C9: extraction never fails the batch: no task exits because phase 1
\* raised on a missing, null or wrong-typed node.
C9_ExtractionNeverFails == exits.parse = 0

(***************************************************************************)
(* Claims about the batcher, checked under SpecShard.                      *)
(***************************************************************************)
\* this step is one iteration of the async for of TurboCharger.run
Reading == run_pc = "read" /\ stream # <<>> /\ stream' = Tail(stream)

\* the events kept and not yet handed to a task, oldest first
Pending == batch \o buffer

\* C11: with modulo = m > 0 and 0 <= shard < m, shard 0 included, an
\* incoming event (that has a time_us) is appended to the buffer if and
\* only if its time_us mod m equals shard, and is left out otherwise.
C11_FilterAdmitsOwnShard ==
    [][ ( /\ Reading
          /\ modulo > 0
          /\ shard \in 0..(modulo - 1)
          /\ Head(stream).time_us # NoKey )
        => /\ run_pc' # "crashed"
           /\ (Head(stream).time_us % modulo = shard)
                 <=> (Pending' = Append(Pending, Head(stream)))
           /\ (Head(stream).time_us % modulo # shard) => (Pending' = Pending) ]_vars

\* C11 witness: with modulo 2 and shard 0 a first batch of events of even
\* time_us has been dispatched and the next even event is buffered
C11_Witness ==
    /\ modulo = 2
    /\ shard = 0
    /\ dispatched = 1
    /\ buffer # <<>>
    /\ \A i \in 1..Len(buffer) : buffer[i].time_us % 2 = 0
    /\ Len(stream) < BATCH_SIZE

\* C12: with modulo zero or unset the filter is bypassed whatever shard
\* is: every incoming event is appended to the buffer and the run loop
\* does not fail.
C12_NoModuloKeepsAll ==
    [][ (Reading /\ modulo = 0)
        => /\ run_pc' # "crashed"
           /\ Pending' = Append(Pending, Head(stream)) ]_vars

\* C13: with a filter active (modulo > 0) an incoming event without
\* time_us is dropped: the buffer is as it was and the loop goes on.
C13_UntimedEventDropped ==
    [][ (Reading /\ modulo > 0 /\ Head(stream).time_us = NoKey)
        => /\ run_pc' = "read"
           /\ Pending' = Pending ]_vars

\* where the batcher is, what it holds
BatcherShape ==
    /\ run_pc = "read" => (batch = <<>> /\ Len(buffer) < BATCH_SIZE)
    /\ run_pc = "acquire" => Len(batch) = BATCH_SIZE
    /\ run_pc = "acquire_last" =>
          (Len(batch) \in 1..(BATCH_SIZE - 1) /\ buffer = <<>> /\ stream = <<>>)
    /\ run_pc = "done" => (Pending = <<>> /\ stream = <<>>)

\* what a step does to the kept events: a kept event joins the pending
\* events at the back, a dispatch hands the batch at their front to one
\* new task, and nothing else changes them
BatcherStep ==
    IF dispatched' # dispatched
    THEN /\ dispatched' = dispatched + 1
         /\ \E t \in BagToSet(tasks') :
               /\ CopiesIn(t, tasks') = CopiesIn(t, tasks) + 1
               /\ BagCardinality(tasks') = BagCardinality(tasks) + 1
               /\ t.pc = "created"
               /\ t.records # <<>>
               /\ Pending = t.records \o Pending'
    ELSE IF Reading /\ ShardFilter(Head(stream)) = "keep"
    THEN Pending' = Append(Pending, Head(stream))
    ELSE Pending' = Pending

Returned ==
    CHOOSE t \in BagToSet(tasks') :
       t.pc = "storing" /\ CopiesIn(t, tasks') = CopiesIn(t, tasks) + 1

\* the writer hydrates, as the second batch of the run, a batch whose
\* references were all cached when it was dispatched, and no other
\* hydration has touched the caches since
Replays ==
    /\ Returns
    /\ dispatched = 2
    /\ Writer.base.ok
    /\ AllDids(Writer.records) \subseteq KeysOf(Writer.base.u)
    /\ AllUris(Writer.records) \subseteq KeysOf(Writer.base.p)

\* C14: a second hydration of the same batch, with nothing in between and
\* every reference of the batch still cached, issues no remote call and
\* returns what the first hydration returned.
C14_ReplayIsWarm ==
    [][ Replays =>
          /\ Writer.calls = <<>>
          /\ \A t1 \in Running :
                (t1.pc = "storing" /\ t1.records = Writer.records)
                => Returned.enriched = t1.enriched ]_vars

\* C14 witness: the same batch has been hydrated twice, the first time with
\* remote calls and the second time without, and both outputs, with the
\* author's profile in them, wait in store_records
C14_Witness ==
    /\ dispatched = 2
    /\ store_calls = 2
    /\ \E t1 \in Running, t2 \in Running :
          /\ t1.pc = "storing" /\ t2.pc = "storing"
          /\ t1.records = t2.records
          /\ t1.calls # <<>>
          /\ t2.calls = <<>>
          /\ t2.all_dids # <<>>
          /\ t1.enriched = t2.enriched
          /\ t2.enriched[1].hydrated_metadata.user # None

\* the keys task t requested that the responses left out
OmittedDids(t) == Range(t.missing_dids) \ EntryKeys(t.fetched_users)
OmittedUris(t) == Range(t.missing_uris) \ EntryKeys(t.fetched_posts)

\* the slots of enriched record e, made from event rec, that refer to one
\* of the DIDs and URIs given are null
SlotsNull(e, rec, dids, uris) ==
    /\ rec.did \in dids => e.hydrated_metadata.user = None
    /\ \A i \in 1..Len(e.hydrated_metadata.mentions) :
          e.hydrated_metadata.mentions[i].k \in dids
          => e.hydrated_metadata.mentions[i].v = None
    /\ ParentUri(rec) \in uris => e.hydrated_metadata.parent_post = None
    /\ RootUri(rec) \in uris => e.hydrated_metadata.reply_post = None
    /\ QuoteUri(rec) \in uris => e.hydrated_metadata.quote_post = None

\* C15: a key the remote leaves out of its response does not fail the
\* hydration, its slots in the enriched records are null, it is never put
\* into its cache, and every batch that references it requests it again.
C15_OmittedKeyNotCached ==
    /\ exits.publish = 0
    /\ \A d \in UnresolvableDids : ~Has(user_cache.cache, d)
    /\ \A u \in UnresolvableUris : ~Has(post_cache.cache, u)
    /\ \A t \in Running :
          /\ t.pc \in {"fetching", "w_wait", "w_held", "storing"} =>
                /\ Range(t.all_dids) \cap UnresolvableDids
                      \subseteq Range(Requested(t.calls, "get_profiles"))
                /\ Range(t.all_uris) \cap UnresolvableUris
                      \subseteq Range(Requested(t.calls, "get_posts"))
          /\ t.pc = "storing" =>
                /\ \A d \in OmittedDids(t) : ~Has(user_cache.cache, d)
                /\ \A u \in OmittedUris(t) : ~Has(post_cache.cache, u)
                /\ Len(t.enriched) = Len(t.records)
                /\ \A i \in 1..Len(t.records) :
                      SlotsNull(t.enriched[i], t.records[i],
                                OmittedDids(t), OmittedUris(t))

\* C15 witness: a batch that mentions a DID the remote leaves out has been
\* hydrated, with null for the mention, and the next batch, which mentions
\* the DID too, is requesting it again
C15_Witness ==
    /\ dispatched = 2
    /\ store_calls = 1
    /\ \E t1 \in Running, t2 \in Running :
          /\ t1.pc = "storing"
          /\ OmittedDids(t1) # {}
          /\ \E i \in 1..Len(t1.enriched[1].hydrated_metadata.mentions) :
                /\ t1.enriched[1].hydrated_metadata.mentions[i].k \in OmittedDids(t1)
                /\ t1.enriched[1].hydrated_metadata.mentions[i].v = None
          /\ t1.enriched[1].hydrated_metadata.user # None
          /\ t2.pc = "fetching"
          /\ OmittedDids(t1) \subseteq Range(Requested(t2.calls, "get_profiles"))

\* C16: the time_us of every enriched record is the top-level time_us of
\* its event, null only when the event has none.
C16_TimeUsPassedThrough ==
    \A t \in Running :
       t.pc = "storing" =>
          \A i \in 1..Len(t.enriched) : t.enriched[i].time_us = t.records[i].time_us

\* C17: with an empty client pool startup fails before the source is read:
\* no event is buffered and no batch is dispatched.
C17_EmptyPoolStopsStartup ==
    (run_pc # "load" /\ bluesky_clients = <<>>)
    => (buffer = <<>> /\ batch = <<>> /\ dispatched = 0)

\* C18: a failure of store_records is surfaced to the caller of the
\* driver: once a sink call has failed the run does not end normally.
C18_SinkFailureSurfaces ==
    [][ (sink_failed /\ run_pc # "done") => run_pc' # "done" ]_vars

\* the tasks at the given place of hydrate_bulk, counted
CountAt(pc) == BagCardinality([t \in {u \in Running : u.pc = pc} |-> CopiesIn(t, tasks)])

\* the lock is held by the tasks in phase 2 and phase 4 and by no other;
\* a writer holds it alone
LockDiscipline ==
    /\ cache_lock.r_state = CountAt("r_held")
    /\ cache_lock.w_state = CountAt("w_held")
    /\ cache_lock.w_state <= 1
    /\ cache_lock.w_state = 1 => cache_lock.r_state = 0

\* a step that changes a cache is the step of a lock holder leaving its
\* critical section
CacheStepLocked ==
    (user_cache' # user_cache \/ post_cache' # post_cache)
    => \/ cache_lock.w_state = 1 /\ cache_lock'.w_state = 0
       \/ cache_lock.r_state > 0 /\ cache_lock'.r_state = cache_lock.r_state - 1

\* C19: the caches are accessed only with the lock held; while a hydration
\* is in phase 4 no other is in phase 2 or phase 4; a hydration waiting on
\* its bulk fetches holds neither lock.
C19_LockGuardsCaches == []LockDiscipline /\ [][CacheStepLocked]_vars

\* C19 witness: two hydrations are in phase 2 at once, with a cached key
\* to probe
C19_Witness ==
    /\ cache_lock.r_state = 2
    /\ CountAt("r_held") = 2
    /\ user_cache.cache # <<>>

\* in cache, every key of refs is more recently used than every other key
PromotedOver(cache, refs) ==
    \A i, j \in 1..Len(cache) :
       (cache[i].k \in refs /\ cache[j].k \notin refs) => j < i

\* C21: at the end of phase 4 every key of the batch that is in its cache,
\* fetched or hit, is more recently used than every key the batch does not
\* reference, so a later eviction takes a key of another batch first.
C21_BatchKeysPromoted ==
    [][ Returns =>
          /\ PromotedOver(user_cache'.cache, Range(Writer.all_dids))
          /\ PromotedOver(post_cache'.cache, Range(Writer.all_uris)) ]_vars

\* C21 witness: a hydration whose only DID was a hit at the probe has
\* returned, after another hydration had touched the cache, and its DID is
\* the more recently used of the two cached DIDs
C21_Witness ==
    /\ Len(user_cache.cache) = 2
    /\ \E t \in Running :
          /\ t.pc = "storing"
          /\ t.all_dids # <<>>
          /\ t.missing_dids = <<>>
          /\ ~t.base.ok
          /\ Last(user_cache.cache).k \in Range(t.all_dids)
          /\ Head(user_cache.cache).k \notin Range(t.all_dids)

\* the keys of the null slots of enriched record e, made from event rec
NullSlotKeys(e, rec) ==
    [dids |-> (IF e.hydrated_metadata.user = None THEN {rec.did} ELSE {})
              \cup {e.hydrated_metadata.mentions[i].k :
                      i \in {j \in 1..Len(e.hydrated_metadata.mentions) :
                               e.hydrated_metadata.mentions[j].v = None}},
     uris |-> ((IF e.hydrated_metadata.parent_post = None
                THEN {ParentUri(rec)} ELSE {})
               \cup (IF e.hydrated_metadata.reply_post = None
                     THEN {RootUri(rec)} ELSE {})
               \cup (IF e.hydrated_metadata.quote_post = None
                     THEN {QuoteUri(rec)} ELSE {})) \ {NoKey}]

\* C23: in the output of a successful hydration a slot is null only if its
\* key was requested from the remote in this hydration and the remote left
\* it out; a key that was a hit at the probe yields a non-null slot whatever
\* other hydrations publish in between.
C23_NullOnlyWhenOmitted ==
    \A t \in Running :
       t.pc = "storing" =>
          \A i \in 1..Len(t.enriched) :
             /\ NullSlotKeys(t.enriched[i], t.records[i]).dids
                   \subseteq OmittedDids(t)
             /\ NullSlotKeys(t.enriched[i], t.records[i]).uris
                   \subseteq OmittedUris(t)

\* the session strings whose login succeeds
LoggingIn == {i \in 1..Len(session_strings) : session_strings[i]}

\* the pool holds, in input order, the first session strings that log in,
\* up to CLIENT_BANDWIDTH of them; failures take no place in it
FirstLoggingIn ==
    /\ Len(bluesky_clients) = Min(CLIENT_BANDWIDTH, Cardinality(LoggingIn))
    /\ Range(bluesky_clients) \subseteq LoggingIn
    /\ \A i, j \in 1..Len(bluesky_clients) :
          i < j => bluesky_clients[i] < bluesky_clients[j]
    /\ \A i \in LoggingIn \ Range(bluesky_clients) :
          \A j \in 1..Len(bluesky_clients) : bluesky_clients[j] < i

\* login is called for a session string exactly when fewer than
\* CLIENT_BANDWIDTH earlier strings logged in
LoginsStopAtFullPool ==
    LoginsFrom(session_strings, 1, 0)
       = {i \in 1..Len(session_strings) :
            Cardinality({j \in LoggingIn : j < i}) < CLIENT_BANDWIDTH}

ProducerBlocked ==
    run_pc \in {"acquire", "acquire_last"} /\ semaphore = 0

\* some hydration waits for the readers-writer lock
LockAwaited == \E t \in Running : t.pc \in {"r_wait", "w_wait"}

\* the run has returned, every dispatched task has exited and every permit
\* and the lock are free
Quiescent ==
    /\ run_pc = "done"
    /\ stream = <<>> /\ buffer = <<>> /\ batch = <<>>
    /\ InFlight = 0
    /\ dispatched = Exited
    /\ semaphore = PERMITS
    /\ cache_lock = [r_state |-> 0, w_state |-> 0]

\* C24: in every reachable state short of the end some step is possible
\* (the tasks are not all blocked on the readers-writer lock, nor is the
\* producer blocked on the semaphore with no task able to go on), and under
\* fair scheduling, with every remote and sink call returning or raising,
\* the run reaches and keeps the state where every dispatched task has
\* exited with its permit released and no batch is in flight.
C24_EveryTaskExits ==
    /\ [](Quiescent \/ ENABLED NextAdmit)
    /\ <>[]Quiescent

\* C24 witness: the run is over after the producer had to wait for a
\* permit: PERMITS + 1 batches were dispatched, one of them failed in its
\* fetch, all have exited and nothing is in flight
C24_Witness ==
    /\ Quiescent
    /\ ~ProducerBlocked
    /\ ~LockAwaited
    /\ dispatched = PERMITS + 1
    /\ exits.fetch = 1
    /\ exits.stored = PERMITS

(***************************************************************************)
(* Claims about the sink, checked under SpecEgress.                        *)
(***************************************************************************)
\* the tasks inside the critical section
InSection == {i \in Callers : sink_calls[i].pc \in SectionPcs}

\* the rows of task i in the file of path, on disk or shipped
RowsAt(e, i, path) ==
    LET rows == IF path \in DOMAIN e.files THEN e.files[path]
                ELSE IF path \in DOMAIN e.shipped THEN e.shipped[path]
                ELSE <<>>
    IN  Cardinality({k \in 1..Len(rows) : rows[k] = i})

\* the files that hold rows of task i
FilesOf(e, i) ==
    {path \in DOMAIN e.files \cup DOMAIN e.shipped : RowsAt(e, i, path) > 0}

\* the connections of e that are open
OpenConnections(e) ==
    {c \in 1..Len(e.connections) : e.connections[c].open}

\* one task at most is in the section and it holds the lock; self.conn is
\* the one open connection if any; no call has failed at the database; the
\* rows of a batch are all in one file once its call has left the section,
\* and nowhere before
SinkShape ==
    /\ Cardinality(InSection) <= 1
    /\ \A i \in InSection : writer_lock.holder = i
    /\ OpenConnections(egress) \subseteq {egress.conn}
    /\ egress.conn # 0 => Insertable(egress)
    /\ \A i \in Callers :
          /\ sink_calls[i].pc # "raised_db"
          /\ IF sink_calls[i].pc \in {"pushing", "returned", "raised_push"}
                /\ sink_calls[i].n > 0
             THEN \E path \in DOMAIN egress.files \cup DOMAIN egress.shipped :
                     /\ FilesOf(egress, i) = {path}
                     /\ RowsAt(egress, i, path) = sink_calls[i].n
             ELSE FilesOf(egress, i) = {}

\* a step that inserts the rows of a batch puts them all into the file of
\* the connection that is open then; a step that closes a connection is
\* taken by the holder of the lock, with no other task in the section
SinkStep ==
    /\ \A i \in Callers :
          (i \in InSection /\ sink_calls'[i].pc = "pushing") =>
             /\ Insertable(egress')
             /\ FilesOf(egress', i) = {egress'.connections[egress'.conn].path}
             /\ \A j \in Callers \ {i} :
                   \A path \in DOMAIN egress'.files :
                      RowsAt(egress', j, path) = RowsAt(egress, j, path)
    /\ \A c \in OpenConnections(egress) \ OpenConnections(egress') :
          /\ InSection = {writer_lock.holder}
          /\ sink_calls'[writer_lock.holder].pc # sink_calls[writer_lock.holder].pc

\* C25: under any interleaving of store_records calls, rotation and close,
\* at most one task is in the database critical section, the rows of every
\* non-empty batch are inserted and committed through a connection that is
\* open at that moment, a connection is closed only by the task that holds
\* the section alone, and all rows of a batch are in one database file.
C25_SinkSectionExclusive == []SinkShape /\ [][SinkStep]_vars

\* C25 witness: a full batch is stored in the first database; a minute
\* later a second store_records has closed that database in a rotation and
\* waits in _create_new_db with the lock
C25_Witness ==
    \E i, j \in Callers :
       /\ sink_calls[i].pc \in {"pushing", "returned"}
       /\ sink_calls[i].n = BATCH_SIZE
       /\ sink_calls[j].op = "store"
       /\ sink_calls[j].pc = "rotated"
       /\ writer_lock.holder = j
       /\ Len(egress.connections) = 2
       /\ ~egress.connections[1].open
       /\ FilesOf(egress, i) = {egress.connections[1].path}
       /\ egress.connections[1].path \in egress.shipping
       /\ egress.current_db_path # egress.connections[1].path

====
